---- MODULE Spec2Model ----
(***************************************************************************)
(* Model of the automatic stock market data updater (stockUpdater.js) and  *)
(* of its trigger setup (triggers.js).                                     *)
(*                                                                         *)
(* Sheets are grids of string cells, strings are TLA+ strings and the      *)
(* template literals of the source are string concatenations, so that a    *)
(* key such as `${exchange}:${ticker}:${dateTime}` is built as the code    *)
(* builds it.  The spreadsheet host, the clock, the mail service and the   *)
(* trigger registry are the environment: their calls succeed or throw.     *)
(***************************************************************************)
EXTENDS Naturals, Integers, Sequences, FiniteSets, TLC

VARIABLES
  now,        \* the wall clock: [date, minute]
  config,     \* CONFIG as edited by the user: [targetColumns, debug]
  source,     \* the stock list sheet ('Recup'), a sequence of rows, row 1 the header
  target,     \* the price history sheet ('Dati'), a sequence of rows, row 1 the header
  logSheet,   \* the log sheet ('Logs'); <<>> while it does not exist
  emails,     \* number of error notifications sent with MailApp.sendEmail
  runs,       \* one record per invocation of updateGlobalStocks
  triggers,   \* the project's registered triggers (ScriptApp.getProjectTriggers)
  nextId,     \* id the registry gives the next trigger
  setup       \* the current call of createStockUpdateTriggers

vars == <<now, config, source, target, logSheet, emails, runs, triggers, nextId, setup>>

stockVars == <<now, config, source, target, logSheet, emails, runs>>
triggerVars == <<triggers, nextId, setup>>

----------------------------------------------------------------------------
(* Bounds of the model *)

\* number of invocations of updateGlobalStocks
MaxRuns == 2
\* number of stock rows of the source sheet
MaxSrc == 3
\* dates run from 2024-10-20 (a Sunday) to 2024-10-2<MaxDate>
MaxDate == 2
\* minutes of a day at which an invocation can start: 09:00 .. 09:0<MaxMinute>
MaxMinute == 0
\* columns of the target sheet
NumCols == 6
\* triggers registered before the first setup call
MaxPrior == 2
\* calls of createStockUpdateTriggers
MaxSetups == 2
\* records of the source sheet when invocations overlap
MaxOverlapSrc == 1

Runs == 1..MaxRuns

Min(a, b) == IF a < b THEN a ELSE b
Max(a, b) == IF a > b THEN a ELSE b
Abs(a) == IF a < 0 THEN 0 - a ELSE a

----------------------------------------------------------------------------
(* CONFIG *)

sourceColumns == [ticker |-> 3, exchange |-> 9]

DefaultTargetColumns ==
  [price |-> 1, exchange |-> 3, ticker |-> 4, datetime |-> 5, priceResult |-> 6]

\* the default layout and two layouts a user gets by editing CONFIG
TargetColumnChoices ==
  { DefaultTargetColumns,
    [price |-> 1, exchange |-> 2, ticker |-> 3, datetime |-> 4, priceResult |-> 5],
    [price |-> 2, exchange |-> 4, ticker |-> 5, datetime |-> 6, priceResult |-> 1] }

european == <<"MIL", "LSE", "XETRA", "ETR", "BIT">>
american == <<"NASDAQ", "NYSE">>

DefaultDebug ==
  [enabled |-> TRUE, logToSheet |-> TRUE, emailOnError |-> FALSE, emailAddress |-> ""]

DebugChoices ==
  { DefaultDebug,
    [enabled |-> TRUE, logToSheet |-> TRUE, emailOnError |-> TRUE,
     emailAddress |-> "me@example.com"],
    [enabled |-> FALSE, logToSheet |-> FALSE, emailOnError |-> TRUE, emailAddress |-> ""] }

\* Logger.batchSize
batchSize == 50

----------------------------------------------------------------------------
(* The spreadsheet host: sheets as grids of cells *)

Cell(sheet, r, c) ==
  IF r \in 1..Len(sheet) /\ c \in DOMAIN sheet[r] THEN sheet[r][c] ELSE ""

\* Sheet.getLastRow(): the last row that has content
GetLastRow(sheet) ==
  LET used == {r \in 1..Len(sheet) : \E c \in DOMAIN sheet[r] : sheet[r][c] # ""}
  IN  IF used = {} THEN 0 ELSE CHOOSE r \in used : \A q \in used : q <= r

\* Sheet.getRange(row, col, numRows, numCols).getValues()
GetValues(sheet, row, col, numRows, numCols) ==
  [i \in 1..numRows |-> [j \in 1..numCols |-> Cell(sheet, row + i - 1, col + j - 1)]]

\* Sheet.getRange(row, col, Len(vals), Len(vals[1])).setValues(vals) (or setFormulas)
SetRange(sheet, row, col, vals) ==
  LET n == Len(vals)
      w == Len(vals[1])
      last == Max(Len(sheet), row + n - 1)
  IN  [r \in 1..last |->
        [c \in 1..NumCols |->
          IF r \in row..(row + n - 1) /\ c \in col..(col + w - 1)
          THEN vals[r - row + 1][c - col + 1]
          ELSE Cell(sheet, r, c)]]

\* Utilities.formatDate(new Date(), tz, "yyyy-MM-dd HH:mm")
formatDate(t) ==
  "2024-10-2" \o ToString(t.date) \o " 09:0" \o ToString(t.minute)

\* Date.getDay(): 2024-10-20 is a Sunday (0)
getDay(t) == t.date % 7

\* the clock never runs backwards
Before(t, u) == t.date < u.date \/ (t.date = u.date /\ t.minute < u.minute)

----------------------------------------------------------------------------
(* Logger (stockUpdater.js) *)

\* a logger is [logs: the buffer, logged: every record ever pushed (history),
\*              sheet: the log sheet]

LogHeader == <<"Time", "Type", "Message">>

\* writeToLogSheet(); ok is whether the host performs the sheet calls
writeToLogSheet(lg, ok) ==
  IF Len(lg.logs) = 0 THEN lg
  ELSE IF ~ok THEN lg
  ELSE LET logSheet0 == IF lg.sheet = <<>> THEN <<LogHeader>> ELSE lg.sheet
           logData == [i \in 1..Len(lg.logs) |->
                         <<lg.logs[i].timestamp, lg.logs[i].type, lg.logs[i].message>>]
       IN  [lg EXCEPT !.sheet = logSheet0 \o logData, !.logs = <<>>]

\* Logger.log(message)
Logger_log(lg, debug, t, message, ok) ==
  IF debug.enabled
  THEN LET rec == [timestamp |-> formatDate(t), type |-> "INFO", message |-> message]
           lg1 == [lg EXCEPT !.logs = Append(@, rec), !.logged = Append(@, rec)]
       IN  IF Len(lg1.logs) >= batchSize /\ debug.logToSheet
           THEN writeToLogSheet(lg1, ok)
           ELSE lg1
  ELSE lg

\* Logger.error(message, error)
Logger_error(lg, debug, t, message, error, ok) ==
  LET rec == [timestamp |-> formatDate(t), type |-> "ERROR",
              message |-> message \o " " \o error]
      lg1 == [lg EXCEPT !.logs = Append(@, rec), !.logged = Append(@, rec)]
  IN  IF debug.logToSheet THEN writeToLogSheet(lg1, ok) ELSE lg1

----------------------------------------------------------------------------
(* Pure helpers of stockUpdater.js *)

\* isWeekday with the upper comparison off by one: Saturday passes the gate
isWeekdayOffByOne(day) == day > 0 /\ day <= 6

\* isWeekday, on the day number Date.getDay() returns
isWeekday(day) == day > 0 /\ day < 6

\* isStockSupported(exchange, config)
isStockSupported(exchange) ==
  LET allExchanges == european \o american
  IN  \E i \in 1..Len(allExchanges) : allExchanges[i] = exchange

\* the key of an existing row built one column to the right
existingKeyOffByOne(entry) == entry[2] \o ":" \o entry[3] \o ":" \o entry[4]

\* the key of an existing row: `${entry[0]}:${entry[1]}:${entry[2]}`
existingKey(entry) == entry[1] \o ":" \o entry[2] \o ":" \o entry[3]

\* the key of a candidate: `${stock.exchange}:${stock.ticker}:${currentDateTime}`
entryKey(stock, currentDateTime) ==
  stock.exchange \o ":" \o stock.ticker \o ":" \o currentDateTime

\* the object pushed on batchUpdates
batchEntry(stock, currentDateTime) ==
  [symbol |-> stock.exchange \o ":" \o stock.ticker,
   exchange |-> stock.exchange,
   ticker |-> stock.ticker,
   dateTime |-> currentDateTime]

ZeroStats == [total |-> 0, updated |-> 0, duplicates |-> 0, errors |-> 0]

\* the forEach loop with the key of every enqueued record added to the set, so
\* that a record repeated in the source list is counted as a duplicate
RECURSIVE planLoopDedup(_, _, _, _, _)
planLoopDedup(stockData, i, existingSet, currentDateTime, acc) ==
  IF i > Len(stockData) THEN acc
  ELSE LET stock == stockData[i]
           key == stock.exchange \o ":" \o stock.ticker \o ":" \o currentDateTime
       IN  IF ~(\E e \in {"MIL", "LSE", "XETRA", "ETR", "BIT", "NASDAQ", "NYSE"} :
                   e = stock.exchange)
           THEN planLoopDedup(stockData, i + 1, existingSet, currentDateTime,
                              [acc EXCEPT !.skipped = Append(@, stock.exchange)])
           ELSE IF key \in existingSet
           THEN planLoopDedup(stockData, i + 1, existingSet, currentDateTime,
                              [acc EXCEPT !.duplicates = @ + 1])
           ELSE planLoopDedup(stockData, i + 1, existingSet \cup {key}, currentDateTime,
                              [acc EXCEPT !.batch = Append(@,
                                 [symbol |-> stock.exchange \o ":" \o stock.ticker,
                                  exchange |-> stock.exchange,
                                  ticker |-> stock.ticker,
                                  dateTime |-> currentDateTime])])

\* the stockData.forEach loop of processStocksWithStats, from record i on:
\* acc is [batch, duplicates, skipped: the unsupported exchanges logged]
RECURSIVE planLoop(_, _, _, _, _)
planLoop(stockData, i, existingSet, currentDateTime, acc) ==
  IF i > Len(stockData) THEN acc
  ELSE LET stock == stockData[i]
       IN  IF ~isStockSupported(stock.exchange)
           THEN planLoop(stockData, i + 1, existingSet, currentDateTime,
                         [acc EXCEPT !.skipped = Append(@, stock.exchange)])
           ELSE IF entryKey(stock, currentDateTime) \in existingSet
           THEN planLoop(stockData, i + 1, existingSet, currentDateTime,
                         [acc EXCEPT !.duplicates = @ + 1])
           ELSE planLoop(stockData, i + 1, existingSet, currentDateTime,
                         [acc EXCEPT !.batch = Append(@, batchEntry(stock, currentDateTime))])

\* the template literal of the run summary
summaryMessage(stats) ==
  "Update Complete: total " \o ToString(stats.total)
    \o " updated " \o ToString(stats.updated)
    \o " duplicates " \o ToString(stats.duplicates)
    \o " errors " \o ToString(stats.errors)

----------------------------------------------------------------------------
(* State of one invocation of updateGlobalStocks *)

\* pc is the statement the invocation is at; "returned" and "thrown" are the two
\* ways it can end.  calls, logged, skipped, day and targetAtStart are history:
\* the host calls issued, the records pushed on the logger, the unsupported
\* exchanges skipped, the day read by isWeekday, the target sheet at invocation.
IdleRun ==
  [pc |-> "idle",
   stockData |-> <<>>,
   existingSet |-> {},
   currentDateTime |-> "",
   batchUpdates |-> <<>>,
   stats |-> ZeroStats,
   lastRow |-> 0,
   logs |-> <<>>,
   logged |-> <<>>,
   calls |-> <<>>,
   skipped |-> 0,
   failed |-> {},
   day |-> 0,
   targetAtStart |-> <<>>,
   after |-> {}]

Ended(r) == runs[r].pc \in {"returned", "thrown"}
Active(r) == runs[r].pc \notin {"idle", "returned", "thrown"}

\* the logger of invocation r, over the shared log sheet
LoggerOf(r) == [logs |-> runs[r].logs, logged |-> runs[r].logged, sheet |-> logSheet]

\* the stock rows the source sheet can hold
StockChoices ==
  { [ticker |-> "AAPL", exchange |-> "NASDAQ"],
    [ticker |-> "FOO", exchange |-> "UNKNOWN"],
    [ticker |-> "ENI", exchange |-> "MIL"] }

SourceWidth == Max(sourceColumns.ticker, sourceColumns.exchange)

SourceRow(stock) ==
  [c \in 1..SourceWidth |->
    IF c = sourceColumns.ticker THEN stock.ticker
    ELSE IF c = sourceColumns.exchange THEN stock.exchange
    ELSE ""]

SourceHeader == SourceRow([ticker |-> "Ticker", exchange |-> "Exchange"])

TargetHeader == [c \in 1..NumCols |-> "Header"]

SeqsUpTo(S, n) == UNION {[1..k -> S] : k \in 0..n}

\* the end of a run that reached processStocksWithStats: return stats (line 282
\* or 333), then the summary of lines 238-244 and the return of updateGlobalStocks
Return(r, run, lg, stats, logOk) ==
  LET lg1 == Logger_log(lg, config.debug, now, summaryMessage(stats), logOk)
  IN  /\ runs' = [runs EXCEPT ![r] =
            [run EXCEPT !.pc = "returned", !.stats = stats,
                        !.logs = lg1.logs, !.logged = lg1.logged]]
      /\ logSheet' = lg1.sheet

\* the catch of processStocksWithStats (lines 328-331):
\* logger.error(...); stats.errors++
BatchError(r, what, logOk) ==
  LET lg1 == Logger_error(LoggerOf(r), config.debug, now,
                          "Error during batch processing:", "Exception: " \o what, logOk)
      stats1 == [runs[r].stats EXCEPT !.errors = @ + 1]
      run1 == [runs[r] EXCEPT !.failed = @ \cup {what} \cup (IF logOk THEN {} ELSE {"log"})]
  IN  Return(r, run1, lg1, stats1, logOk)

----------------------------------------------------------------------------
(* updateGlobalStocks, statement by statement *)

\* lines 204-232 and the catch of lines 245-252: the invocation at time t, the
\* weekend gate, the sheet lookup (lookup is what the host does: both sheets
\* found, one missing, or an exception), and the fatal path.  An invocation
\* takes less than a minute: the steps after this one read the same clock.
Invoke(r, t, lookup, logOk, mailOk) ==
  /\ runs[r].pc = "idle"
  /\ \A q \in 1..(r - 1) : runs[q].pc # "idle"
  /\ ~Before(t, now)
  /\ now' = t
  /\ LET day == getDay(t)
         run0 == [runs[r] EXCEPT !.day = day, !.targetAtStart = target,
                                 !.after = {q \in Runs : Ended(q)}]
         lg0 == LoggerOf(r)
     IN  IF ~isWeekday(day)
         THEN LET lg1 == Logger_log(lg0, config.debug, t,
                                    "Today is a weekend - No updates needed", logOk)
              IN  /\ runs' = [runs EXCEPT ![r] =
                       [run0 EXCEPT !.pc = "returned", !.logs = lg1.logs,
                                    !.logged = lg1.logged]]
                  /\ logSheet' = lg1.sheet
                  /\ emails' = emails
         ELSE LET lg1 == Logger_log(lg0, config.debug, t,
                                    "Starting stock price update process...", logOk)
              IN  IF lookup = "ok"
                  THEN /\ runs' = [runs EXCEPT ![r] =
                            [run0 EXCEPT !.pc = "getStockData", !.logs = lg1.logs,
                                         !.logged = lg1.logged]]
                       /\ logSheet' = lg1.sheet
                       /\ emails' = emails
                  ELSE LET error == IF lookup = "missing"
                                    THEN "Error: Could not find required sheets."
                                    ELSE "Exception: Service error: Spreadsheets"
                           lg2 == Logger_error(lg1, config.debug, t,
                                               "A serious error occurred:", error, logOk)
                           notify == config.debug.emailOnError
                                       /\ config.debug.emailAddress # ""
                           run1 == [run0 EXCEPT
                                      !.logs = lg2.logs, !.logged = lg2.logged,
                                      !.failed = {"sheets"}
                                         \cup (IF logOk THEN {} ELSE {"log"})
                                         \cup (IF notify /\ ~mailOk THEN {"mail"} ELSE {}),
                                      !.calls = IF notify THEN Append(@, [op |-> "sendEmail"])
                                                ELSE @]
                       IN  /\ logSheet' = lg2.sheet
                           /\ IF notify /\ ~mailOk
                              THEN \* MailApp.sendEmail throws inside the catch block
                                   /\ runs' = [runs EXCEPT ![r] = [run1 EXCEPT !.pc = "thrown"]]
                                   /\ emails' = emails
                              ELSE /\ runs' = [runs EXCEPT ![r] = [run1 EXCEPT !.pc = "returned"]]
                                   /\ emails' = IF notify THEN emails + 1 ELSE emails
  /\ UNCHANGED <<config, source, target>>
  /\ UNCHANGED triggerVars

\* getStockData without its try/catch: a failed read reaches the catch of
\* updateGlobalStocks, which logs the serious error and ends the run
GetStockDataUncaught(r, ioOk, logOk) ==
  /\ runs[r].pc = "getStockData"
  /\ LET lastRow == GetLastRow(source)
         first == Min(sourceColumns.exchange, sourceColumns.ticker)
         width == Abs(sourceColumns.exchange - sourceColumns.ticker) + 1
         readOk == ioOk /\ lastRow - 1 >= 1
         data == GetValues(source, 2, first, lastRow - 1, width)
         stocks == [i \in 1..Len(data) |->
                      [exchange |-> data[i][sourceColumns.exchange - first + 1],
                       ticker |-> data[i][sourceColumns.ticker - first + 1]]]
         run0 == [runs[r] EXCEPT !.calls = Append(@, [op |-> "readSource"])]
     IN  IF readOk
         THEN /\ runs' = [runs EXCEPT ![r] =
                    [run0 EXCEPT !.stockData = stocks, !.pc = "getExistingEntries"]]
              /\ logSheet' = logSheet
         ELSE LET lg1 == Logger_error(LoggerOf(r), config.debug, now,
                                      "A serious error occurred:",
                                      "Exception: range", logOk)
              IN  /\ runs' = [runs EXCEPT ![r] =
                       [run0 EXCEPT !.pc = "returned",
                                    !.logs = lg1.logs, !.logged = lg1.logged,
                                    !.failed = @ \cup {"readSource", "sheets"}]]
                  /\ logSheet' = lg1.sheet
  /\ UNCHANGED <<now, config, source, target, emails>>
  /\ UNCHANGED triggerVars

\* getStockData (lines 373-396); ioOk is whether the host performs the read
GetStockData(r, ioOk, logOk) ==
  /\ runs[r].pc = "getStockData"
  /\ LET lastRow == GetLastRow(source)
         first == Min(sourceColumns.exchange, sourceColumns.ticker)
         width == Abs(sourceColumns.exchange - sourceColumns.ticker) + 1
         \* getRange throws for a range of no rows
         readOk == ioOk /\ lastRow - 1 >= 1
         data == GetValues(source, 2, first, lastRow - 1, width)
         stocks == [i \in 1..Len(data) |->
                      [exchange |-> data[i][sourceColumns.exchange - first + 1],
                       ticker |-> data[i][sourceColumns.ticker - first + 1]]]
         run0 == [runs[r] EXCEPT !.calls = Append(@, [op |-> "readSource"]),
                                 !.pc = "getExistingEntries"]
     IN  IF readOk
         THEN /\ runs' = [runs EXCEPT ![r] = [run0 EXCEPT !.stockData = stocks]]
              /\ logSheet' = logSheet
         ELSE LET lg1 == Logger_error(LoggerOf(r), config.debug, now,
                                      "Could not read stock list:",
                                      "Exception: range", logOk)
              IN  /\ runs' = [runs EXCEPT ![r] =
                       [run0 EXCEPT !.stockData = <<>>,
                                    !.logs = lg1.logs, !.logged = lg1.logged,
                                    !.failed = @ \cup {"readSource"}
                                        \cup (IF logOk THEN {} ELSE {"log"})]]
                  /\ logSheet' = lg1.sheet
  /\ UNCHANGED <<now, config, source, target, emails>>
  /\ UNCHANGED triggerVars

\* getExistingEntries (lines 404-413), the existingSet of lines 277-279 and
\* lines 281-282: stats.total = stockData.length; if (!stats.total) return stats
GetExistingEntries(r, ioOk, logOk) ==
  /\ runs[r].pc = "getExistingEntries"
  /\ LET lastRow == GetLastRow(target)
         existingEntries == IF ~ioOk THEN <<>>
                            ELSE IF lastRow <= 1 THEN <<>>
                            ELSE GetValues(target, 2, 3, lastRow - 1, 4)
         existingSet == {existingKey(existingEntries[i]) : i \in 1..Len(existingEntries)}
         lg1 == IF ioOk THEN LoggerOf(r)
                ELSE Logger_error(LoggerOf(r), config.debug, now,
                                  "Could not read existing entries:",
                                  "Exception: range", logOk)
         stats1 == [runs[r].stats EXCEPT !.total = Len(runs[r].stockData)]
         run1 == [runs[r] EXCEPT
                    !.calls = Append(@, [op |-> "readTarget"]),
                    !.existingSet = existingSet,
                    !.stats = stats1,
                    !.logs = lg1.logs, !.logged = lg1.logged,
                    !.failed = IF ioOk THEN @
                               ELSE @ \cup {"readTarget"}
                                      \cup (IF logOk THEN {} ELSE {"log"})]
     IN  IF stats1.total = 0
         THEN Return(r, run1, lg1, stats1, logOk)
         ELSE /\ runs' = [runs EXCEPT ![r] = [run1 EXCEPT !.pc = "plan"]]
              /\ logSheet' = lg1.sheet
  /\ UNCHANGED <<now, config, source, target, emails>>
  /\ UNCHANGED triggerVars

\* lines 285-320 and the test of line 323: the run timestamp and the forEach
\* loop.  No statement of the loop body can throw on string cells, so its catch
\* (lines 316-319) is never entered.
Plan(r, logOk) ==
  /\ runs[r].pc = "plan"
  /\ LET currentDateTime == formatDate(now)
         acc == planLoop(runs[r].stockData, 1, runs[r].existingSet, currentDateTime,
                         [batch |-> <<>>, duplicates |-> 0, skipped |-> <<>>])
         \* logger.log(`Skipping unsupported exchange: ...`) of each skipped record
         RECURSIVE logSkips(_, _)
         logSkips(lg, i) ==
           IF i > Len(acc.skipped) THEN lg
           ELSE logSkips(Logger_log(lg, config.debug, now,
                                    "Skipping unsupported exchange: " \o acc.skipped[i],
                                    logOk), i + 1)
         lg1 == logSkips(LoggerOf(r), 1)
         stats1 == [runs[r].stats EXCEPT !.duplicates = acc.duplicates]
         run1 == [runs[r] EXCEPT
                    !.currentDateTime = currentDateTime,
                    !.batchUpdates = acc.batch,
                    !.skipped = Len(acc.skipped),
                    !.stats = stats1,
                    !.logs = lg1.logs, !.logged = lg1.logged]
     IN  IF Len(acc.batch) = 0
         THEN Return(r, run1, lg1, stats1, logOk)
         ELSE /\ runs' = [runs EXCEPT ![r] = [run1 EXCEPT !.pc = "updateStockPrices"]]
              /\ logSheet' = lg1.sheet
  /\ UNCHANGED <<now, config, source, target, emails>>
  /\ UNCHANGED triggerVars

\* updateStockPrices, line 344: the start row of both writes is read from the
\* sheet once, in a host call of its own, before the first write.  An exception
\* of getLastRow leaves the same state as one of setFormulas (nothing written,
\* the catch of lines 328-331), which SetFormulas draws.
UpdateStockPrices(r) ==
  /\ runs[r].pc = "updateStockPrices"
  /\ runs' = [runs EXCEPT ![r] =
        [@ EXCEPT !.pc = "setFormulas", !.lastRow = GetLastRow(target) + 1]]
  /\ UNCHANGED <<now, config, source, target, logSheet, emails>>
  /\ UNCHANGED triggerVars

\* updateStockPrices, lines 345-361: the bulk write of the formulas
SetFormulas(r, ioOk, logOk) ==
  /\ runs[r].pc = "setFormulas"
  /\ LET entries == runs[r].batchUpdates
         lastRow == runs[r].lastRow
         formulas == [i \in 1..Len(entries) |->
                        <<"=GOOGLEFINANCE(\"" \o entries[i].symbol \o "\")">>]
         call == [op |-> "setFormulas", row |-> lastRow,
                  col |-> config.targetColumns.price,
                  numRows |-> Len(entries), numCols |-> 1, values |-> formulas]
     IN  IF ioOk
         THEN /\ target' = SetRange(target, lastRow, config.targetColumns.price, formulas)
              /\ runs' = [runs EXCEPT ![r] =
                    [@ EXCEPT !.pc = "setValues",
                              !.calls = Append(@, call)]]
              /\ logSheet' = logSheet
         ELSE /\ target' = target
              /\ BatchError(r, "setFormulas", logOk)
  /\ UNCHANGED <<now, config, source, emails>>
  /\ UNCHANGED triggerVars

\* the second write with its start row read again from the sheet, after the
\* formulas were written
SetValuesRereadsLastRow(r, ioOk, logOk) ==
  /\ runs[r].pc = "setValues"
  /\ LET entries == runs[r].batchUpdates
         lastRow == GetLastRow(target) + 1
         data == [i \in 1..Len(entries) |->
                    <<entries[i].exchange, entries[i].ticker, entries[i].dateTime>>]
         call == [op |-> "setValues", row |-> lastRow,
                  col |-> config.targetColumns.exchange,
                  numRows |-> Len(entries), numCols |-> 3, values |-> data]
     IN  IF ioOk
         THEN /\ target' = SetRange(target, lastRow, config.targetColumns.exchange, data)
              /\ Return(r, [runs[r] EXCEPT !.calls = Append(@, call)], LoggerOf(r),
                        [runs[r].stats EXCEPT !.updated = Len(entries)], logOk)
         ELSE /\ target' = target
              /\ BatchError(r, "setValues", logOk)
  /\ UNCHANGED <<now, config, source, emails>>
  /\ UNCHANGED triggerVars

\* updateStockPrices, lines 363-364: the bulk write of exchange, ticker and
\* timestamp; then line 325: stats.updated = batchUpdates.length
SetValues(r, ioOk, logOk) ==
  /\ runs[r].pc = "setValues"
  /\ LET entries == runs[r].batchUpdates
         data == [i \in 1..Len(entries) |->
                    <<entries[i].exchange, entries[i].ticker, entries[i].dateTime>>]
         call == [op |-> "setValues", row |-> runs[r].lastRow,
                  col |-> config.targetColumns.exchange,
                  numRows |-> Len(entries), numCols |-> 3, values |-> data]
     IN  IF ioOk
         THEN /\ target' = SetRange(target, runs[r].lastRow,
                                    config.targetColumns.exchange, data)
              /\ Return(r, [runs[r] EXCEPT !.calls = Append(@, call)], LoggerOf(r),
                        [runs[r].stats EXCEPT !.updated = Len(entries)], logOk)
         ELSE /\ target' = target
              /\ BatchError(r, "setValues", logOk)
  /\ UNCHANGED <<now, config, source, emails>>
  /\ UNCHANGED triggerVars

----------------------------------------------------------------------------
(* triggers.js *)

\* the six createDailyTrigger calls of createStockUpdateTriggers, in order
Schedule ==
  << [hour |-> 9, minute |-> 0], [hour |-> 12, minute |-> 0], [hour |-> 17, minute |-> 0],
     [hour |-> 15, minute |-> 30], [hour |-> 19, minute |-> 0], [hour |-> 22, minute |-> 0] >>

\* pc is the statement the call is at, i the next createDailyTrigger call;
\* count and before are history: the calls made so far and the ids of the
\* triggers registered when the current call began
IdleSetup == [pc |-> "idle", i |-> 1, count |-> 0, before |-> {}]

\* line 54 and the catch of lines 70-73: createStockUpdateTriggers is called;
\* logOk is whether Logger.log('Starting trigger setup process...') returns. The
\* catch block logs with the same Logger and re-throws.
SetupCall(logOk) ==
  /\ setup.pc \in {"idle", "returned", "thrown"}
  /\ setup.count < MaxSetups
  /\ setup' = [pc |-> IF logOk THEN "delete" ELSE "thrown", i |-> 1,
               count |-> setup.count + 1, before |-> {t.id : t \in triggers}]
  /\ UNCHANGED <<triggers, nextId>>
  /\ UNCHANGED stockVars

\* deleteExistingTriggers deleting only the triggers of updateGlobalStocks
deleteOwnTriggersOnly(kept, logOk) ==
  /\ setup.pc = "delete"
  /\ kept \subseteq {t \in triggers : t.handler = "updateGlobalStocks"}
  /\ triggers' = kept \cup {t \in triggers : t.handler # "updateGlobalStocks"}
  /\ setup' = [setup EXCEPT !.pc = IF kept = {} /\ logOk THEN "create" ELSE "thrown"]
  /\ UNCHANGED nextId
  /\ UNCHANGED stockVars

\* deleteExistingTriggers (lines 105-114): ScriptApp.deleteTrigger on every
\* trigger of getProjectTriggers(), then Logger.log; kept is what is still
\* registered when a deleteTrigger call (or the getProjectTriggers call) throws,
\* {} when none does; logOk is whether the Logger.log after the loop returns.
\* The catch block logs and re-throws.
deleteExistingTriggers(kept, logOk) ==
  /\ setup.pc = "delete"
  /\ kept \subseteq triggers
  /\ triggers' = kept
  /\ setup' = [setup EXCEPT !.pc = IF kept = {} /\ logOk THEN "create" ELSE "thrown"]
  /\ UNCHANGED nextId
  /\ UNCHANGED stockVars

\* createDailyTrigger (lines 84-98), the i-th call of lines 60-67, with line 69
\* after the last; outcome is what the host does: "createThrows" when
\* ScriptApp does not register the trigger, "logThrows" when it does and a
\* Logger.log after it throws
createDailyTrigger(outcome) ==
  /\ setup.pc = "create"
  /\ IF outcome = "createThrows"
     THEN /\ setup' = [setup EXCEPT !.pc = "thrown"]
          /\ UNCHANGED <<triggers, nextId>>
     ELSE /\ triggers' = triggers \cup
                 {[id |-> nextId, handler |-> "updateGlobalStocks",
                   hour |-> Schedule[setup.i].hour, minute |-> Schedule[setup.i].minute]}
          /\ nextId' = nextId + 1
          /\ setup' = [setup EXCEPT !.i = @ + 1,
                                    !.pc = IF outcome = "logThrows" THEN "thrown"
                                           ELSE IF setup.i = Len(Schedule) THEN "returned"
                                           ELSE "create"]
  /\ UNCHANGED stockVars

----------------------------------------------------------------------------
(* Specifications *)

\* no invocation is under way: the scheduler's fixed times are far apart
NoneActive == \A q \in Runs : ~Active(q)

StockRows == SeqsUpTo(StockChoices, MaxSrc)

Times == [date : 0..MaxDate, minute : 0..MaxMinute]

\* CONFIG as shipped, and CONFIG after the user edited one of its sections
ConfigChoices ==
  {[targetColumns |-> c, debug |-> DefaultDebug] : c \in TargetColumnChoices}
    \cup {[targetColumns |-> DefaultTargetColumns, debug |-> d] : d \in DebugChoices}

InitStock ==
  /\ now = [date |-> 0, minute |-> 0]
  /\ config \in ConfigChoices
  /\ \E rows \in StockRows :
       source = <<SourceHeader>> \o [i \in 1..Len(rows) |-> SourceRow(rows[i])]
  /\ target = <<TargetHeader>>
  /\ logSheet = <<>>
  /\ emails = 0
  /\ runs = [r \in Runs |-> IdleRun]

PriorHandlers == {"updateGlobalStocks", "sendReport"}

Init ==
  /\ InitStock
  /\ triggers = {}
  /\ nextId = 1
  /\ setup = IdleSetup

\* the scheduler fires updateGlobalStocks, one invocation after the other
Next ==
  \/ \E r \in Runs, t \in Times, lookup \in {"ok", "missing", "throws"},
          logOk, mailOk \in BOOLEAN :
       NoneActive /\ Invoke(r, t, lookup, logOk, mailOk)
  \/ \E r \in Runs, ioOk, logOk \in BOOLEAN : GetStockData(r, ioOk, logOk)
  \/ \E r \in Runs, ioOk, logOk \in BOOLEAN : GetExistingEntries(r, ioOk, logOk)
  \/ \E r \in Runs, logOk \in BOOLEAN : Plan(r, logOk)
  \/ \E r \in Runs : UpdateStockPrices(r)
  \/ \E r \in Runs, ioOk, logOk \in BOOLEAN : SetFormulas(r, ioOk, logOk)
  \/ \E r \in Runs, ioOk, logOk \in BOOLEAN : SetValues(r, ioOk, logOk)

Spec == Init /\ [][Next]_vars

\* the operator runs createStockUpdateTriggers by hand, any number of times, on a
\* project that already has triggers
InitTriggers ==
  /\ now = [date |-> 0, minute |-> 0]
  /\ config = [targetColumns |-> DefaultTargetColumns, debug |-> DefaultDebug]
  /\ source = <<SourceHeader>>
  /\ target = <<TargetHeader>>
  /\ logSheet = <<>>
  /\ emails = 0
  /\ runs = [r \in Runs |-> IdleRun]
  /\ \E n \in 0..MaxPrior : \E h \in [1..n -> PriorHandlers] :
       /\ triggers = {[id |-> k, handler |-> h[k], hour |-> 8, minute |-> 15] : k \in 1..n}
       /\ nextId = n + 1
  /\ setup = IdleSetup

NextTriggers ==
  \/ \E logOk \in BOOLEAN : SetupCall(logOk)
  \/ \E kept \in SUBSET triggers, logOk \in BOOLEAN : deleteExistingTriggers(kept, logOk)
  \/ \E outcome \in {"ok", "createThrows", "logThrows"} : createDailyTrigger(outcome)

SpecTriggers == InitTriggers /\ [][NextTriggers]_vars

\* a whole week, 2024-10-20 (Sunday) to 2024-10-26 (Saturday), for the weekend
\* gate: one stock, the default columns, and a log sheet that takes every write
WeekTimes == [date : 0..6, minute : {0}]

InitWeek ==
  /\ now = [date |-> 0, minute |-> 0]
  /\ config \in {c \in ConfigChoices :
                   c.targetColumns = DefaultTargetColumns /\ c.debug.enabled}
  /\ source = <<SourceHeader, SourceRow([ticker |-> "AAPL", exchange |-> "NASDAQ"])>>
  /\ target = <<TargetHeader>>
  /\ logSheet = <<>>
  /\ emails = 0
  /\ runs = [r \in Runs |-> IdleRun]
  /\ triggers = {}
  /\ nextId = 1
  /\ setup = IdleSetup

NextWeek ==
  \/ \E r \in Runs, t \in WeekTimes, lookup \in {"ok", "missing", "throws"},
          mailOk \in BOOLEAN :
       NoneActive /\ Invoke(r, t, lookup, TRUE, mailOk)
  \/ \E r \in Runs, ioOk \in BOOLEAN : GetStockData(r, ioOk, TRUE)
  \/ \E r \in Runs, ioOk \in BOOLEAN : GetExistingEntries(r, ioOk, TRUE)
  \/ \E r \in Runs : Plan(r, TRUE)
  \/ \E r \in Runs : UpdateStockPrices(r)
  \/ \E r \in Runs, ioOk \in BOOLEAN : SetFormulas(r, ioOk, TRUE)
  \/ \E r \in Runs, ioOk \in BOOLEAN : SetValues(r, ioOk, TRUE)

SpecWeek == InitWeek /\ [][NextWeek]_vars

\* two triggers, or a trigger and a manual run, fire updateGlobalStocks while an
\* earlier invocation is still running: the invocations share the sheets and
\* nothing else, and the host runs their calls in any order.  CONFIG is as
\* shipped, the days are a Monday and a Tuesday, and of the host calls only the
\* read of the existing rows can fail.
OverlapTimes == [date : {1, 2}, minute : {0}]

InitOverlap ==
  /\ now = [date |-> 1, minute |-> 0]
  /\ config = [targetColumns |-> DefaultTargetColumns, debug |-> DefaultDebug]
  /\ \E rows \in SeqsUpTo(StockChoices, MaxOverlapSrc) :
       source = <<SourceHeader>> \o [i \in 1..Len(rows) |-> SourceRow(rows[i])]
  /\ target = <<TargetHeader>>
  /\ logSheet = <<>>
  /\ emails = 0
  /\ runs = [r \in Runs |-> IdleRun]
  /\ triggers = {}
  /\ nextId = 1
  /\ setup = IdleSetup

NextOverlap ==
  \/ \E r \in Runs, t \in OverlapTimes, lookup \in {"ok"} :
       Invoke(r, t, lookup, TRUE, TRUE)
  \/ \E r \in Runs : GetStockData(r, TRUE, TRUE)
  \/ \E r \in Runs, ioOk \in BOOLEAN : GetExistingEntries(r, ioOk, TRUE)
  \/ \E r \in Runs : Plan(r, TRUE)
  \/ \E r \in Runs : UpdateStockPrices(r)
  \/ \E r \in Runs : SetFormulas(r, TRUE, TRUE)
  \/ \E r \in Runs : SetValues(r, TRUE, TRUE)

SpecOverlap == InitOverlap /\ [][NextOverlap]_vars

----------------------------------------------------------------------------
(* Vocabulary of the properties *)

\* the cells a run writes next to each other: exchange, ticker, timestamp
TripleAt(sheet, i) ==
  <<Cell(sheet, i, config.targetColumns.exchange),
    Cell(sheet, i, config.targetColumns.exchange + 1),
    Cell(sheet, i, config.targetColumns.exchange + 2)>>

\* row i of the sheet carries an exchange, a ticker and a timestamp
Written(sheet, i) == Cell(sheet, i, config.targetColumns.exchange) # ""

\* invocation r computed its run timestamp and went through the forEach loop
Planned(r) == runs[r].currentDateTime # ""

Supported(stockData) ==
  {i \in DOMAIN stockData : isStockSupported(stockData[i].exchange)}

\* the key of stock is in a row the target sheet had when invocation r began
PresentAtStart(r, stock) ==
  \E i \in 2..Len(runs[r].targetAtStart) :
    TripleAt(runs[r].targetAtStart, i)
      = <<stock.exchange, stock.ticker, runs[r].currentDateTime>>

\* the entries of the batch made from a record equal to stock
EntriesOf(batch, stock) ==
  {k \in DOMAIN batch : batch[k].exchange = stock.exchange /\ batch[k].ticker = stock.ticker}

CallsOf(r, op) == {k \in DOMAIN runs[r].calls : runs[r].calls[k].op = op}

WriteFailed(r) == runs[r].failed \cap {"setFormulas", "setValues"} # {}
ReadFailed(r) == runs[r].failed \cap {"readSource", "readTarget"} # {}

----------------------------------------------------------------------------
(* C1 *)

\* C1: the target sheet never holds two rows written with the same exchange,
\* the same ticker and the same run timestamp
C1_NoTwoRowsWithSameKey ==
  \A i, j \in 2..Len(target) :
    (i < j /\ Written(target, i)) => TripleAt(target, i) # TripleAt(target, j)

----------------------------------------------------------------------------
(* C2 *)

\* C2: whatever the target columns are, in a run whose reads succeeded every
\* supported record whose exchange, ticker and run timestamp are in a row the
\* target sheet had when the run began is counted in duplicates and is not
\* enqueued
C2_PresentKeysAreDuplicates ==
  \A r \in Runs :
    (Planned(r) /\ ~ReadFailed(r)) =>
      LET sd == runs[r].stockData
          present == {i \in Supported(sd) : PresentAtStart(r, sd[i])}
      IN  /\ runs[r].stats.duplicates = Cardinality(present)
          /\ \A i \in present : EntriesOf(runs[r].batchUpdates, sd[i]) = {}

----------------------------------------------------------------------------
(* C3 *)

\* C3: the stats a run returns satisfy
\* total = updated + duplicates + unsupported-exchange skips + errors
C3_StatsAddUp ==
  \A r \in Runs :
    (runs[r].pc = "returned" /\ CallsOf(r, "readSource") # {}) =>
      runs[r].stats.total =
        runs[r].stats.updated + runs[r].stats.duplicates
          + runs[r].skipped + runs[r].stats.errors

----------------------------------------------------------------------------
(* C6 *)

\* C6: no invocation of updateGlobalStocks ends by throwing to the scheduler
C6_NeverRethrows == \A r \in Runs : runs[r].pc # "thrown"

----------------------------------------------------------------------------
(* C9 *)

\* C9: with logging and sheet logging enabled and no failed log write, when an
\* invocation has returned its buffer is empty and every record it logged is a
\* row of the log sheet
C9_LoggedRecordsAreOnSheet ==
  \A r \in Runs :
    (/\ runs[r].pc = "returned"
     /\ config.debug.enabled /\ config.debug.logToSheet
     /\ "log" \notin runs[r].failed) =>
      /\ runs[r].logs = <<>>
      /\ \A i \in DOMAIN runs[r].logged :
           \E k \in DOMAIN logSheet :
             logSheet[k] = <<runs[r].logged[i].timestamp, runs[r].logged[i].type,
                             runs[r].logged[i].message>>

----------------------------------------------------------------------------
(* C4 *)

Occurrences(stockData, stock) == {j \in DOMAIN stockData : stockData[j] = stock}

ExampleList ==
  << [exchange |-> "NASDAQ", ticker |-> "AAPL"],
     [exchange |-> "UNKNOWN", ticker |-> "FOO"],
     [exchange |-> "NASDAQ", ticker |-> "AAPL"] >>

\* C4: records are checked against the snapshot only: a supported record whose
\* key is not in the snapshot is enqueued as many times as the source list holds
\* it, every entry with the run timestamp; duplicates counts the records whose
\* key is in the snapshot; after a successful write updated counts all the
\* others and the value rows written hold each of them as often as the list
\* does; the list AAPL, FOO, AAPL on an empty target gives 3, 2, 0, 0
C4_OnlySnapshotIsChecked ==
  \A r \in Runs :
    Planned(r) =>
      LET sd == runs[r].stockData
          batch == runs[r].batchUpdates
          ts == runs[r].currentDateTime
          fresh == {i \in Supported(sd) :
                      (sd[i].exchange \o ":" \o sd[i].ticker \o ":" \o ts)
                        \notin runs[r].existingSet}
          done == runs[r].pc = "returned" /\ ~WriteFailed(r)
      IN  /\ \A i \in fresh :
               Cardinality(EntriesOf(batch, sd[i])) = Cardinality(Occurrences(sd, sd[i]))
          /\ \A k \in DOMAIN batch : batch[k].dateTime = ts
          /\ runs[r].stats.duplicates = Cardinality(Supported(sd) \ fresh)
          /\ done => runs[r].stats.updated = Cardinality(fresh)
          /\ (done /\ fresh # {}) =>
               \E c \in CallsOf(r, "setValues") :
                 \A i \in fresh :
                   Cardinality({k \in DOMAIN runs[r].calls[c].values :
                                  runs[r].calls[c].values[k]
                                    = <<sd[i].exchange, sd[i].ticker, ts>>})
                     = Cardinality(Occurrences(sd, sd[i]))
          /\ (done /\ sd = ExampleList /\ runs[r].failed = {}
                /\ Len(runs[r].targetAtStart) = 1) =>
               runs[r].stats = [total |-> 3, updated |-> 2, duplicates |-> 0, errors |-> 0]

\* the example run: AAPL, FOO, AAPL on an empty target, two equal rows written
C4_Witness ==
  \E r \in Runs :
    /\ runs[r].pc = "returned"
    /\ runs[r].failed = {}
    /\ runs[r].stockData = ExampleList
    /\ Len(runs[r].targetAtStart) = 1
    /\ runs[r].stats = [total |-> 3, updated |-> 2, duplicates |-> 0, errors |-> 0]
    /\ \E i, j \in 2..Len(target) :
         /\ i < j
         /\ TripleAt(target, i) = <<"NASDAQ", "AAPL", runs[r].currentDateTime>>
         /\ TripleAt(target, j) = TripleAt(target, i)

----------------------------------------------------------------------------
(* C5 *)

ExpectedTimes == {<<9, 0>>, <<12, 0>>, <<17, 0>>, <<15, 30>>, <<19, 0>>, <<22, 0>>}

\* C5: when a call of createStockUpdateTriggers has returned, exactly six
\* triggers are registered, all for updateGlobalStocks, one for each of 09:00,
\* 12:00, 17:00, 15:30, 19:00 and 22:00, and none was registered before the call
C5_SixFreshTriggers ==
  setup.pc = "returned" =>
    /\ Cardinality(triggers) = 6
    /\ \A t \in triggers :
         /\ t.handler = "updateGlobalStocks"
         /\ t.id \notin setup.before
    /\ \A hm \in ExpectedTimes :
         Cardinality({t \in triggers : <<t.hour, t.minute>> = hm}) = 1

\* a repeated call has returned on a project that had triggers, one of them of
\* another function, before the first
C5_Witness ==
  /\ setup.pc = "returned"
  /\ setup.count >= 2
  /\ setup.before # {}
  /\ nextId > 8

----------------------------------------------------------------------------
(* C7 *)

\* the range writes invocation r issued, in order
Writes(r) ==
  SelectSeq(runs[r].calls, LAMBDA c : c.op \in {"setFormulas", "setValues"})

\* C7: a run that completed updateStockPrices issued exactly two range writes
\* for its n >= 1 entries, on a sheet whose last row was L: the n formulas to
\* rows L+1..L+n of the price column, then the n value rows to the same rows of
\* the three columns from the exchange column; row i of both holds entry i, in
\* the calls and in the sheet
C7_TwoAlignedBulkWrites ==
  \A r \in Runs :
    CallsOf(r, "setValues") # {} =>
      LET w == Writes(r)
          batch == runs[r].batchUpdates
          n == Len(batch)
          L == GetLastRow(runs[r].targetAtStart)
          formula(e) == "=GOOGLEFINANCE(\"" \o e.exchange \o ":" \o e.ticker \o "\")"
          triple(e) == <<e.exchange, e.ticker, e.dateTime>>
      IN  /\ n >= 1
          /\ Len(w) = 2
          /\ w[1].op = "setFormulas" /\ w[2].op = "setValues"
          /\ w[1].row = L + 1 /\ w[1].col = config.targetColumns.price
          /\ w[1].numRows = n /\ w[1].numCols = 1
          /\ w[2].row = L + 1 /\ w[2].col = config.targetColumns.exchange
          /\ w[2].numRows = n /\ w[2].numCols = 3
          /\ \A i \in 1..n :
               /\ w[1].values[i] = <<formula(batch[i])>>
               /\ w[2].values[i] = triple(batch[i])
               /\ Cell(target, L + i, config.targetColumns.price) = formula(batch[i])
               /\ TripleAt(target, L + i) = triple(batch[i])

\* a run wrote two different entries below rows an earlier run had written
C7_Witness ==
  \E r \in Runs :
    /\ runs[r].pc = "returned"
    /\ CallsOf(r, "setValues") # {}
    /\ GetLastRow(runs[r].targetAtStart) >= 2
    /\ Len(runs[r].batchUpdates) >= 2
    /\ runs[r].batchUpdates[1] # runs[r].batchUpdates[2]

----------------------------------------------------------------------------
(* C8 *)

Started(r) == runs[r].pc # "idle"
\* no invocation began after invocation r
Latest(r) == \A q \in Runs : q > r => ~Started(q)
Weekend(r) == runs[r].day \in {0, 6}

\* what an invocation on a Saturday or a Sunday leaves behind
GatedOut(r) ==
  /\ runs[r].pc = "returned"
  /\ runs[r].calls = <<>>
  /\ runs[r].failed = {}
  /\ runs[r].stats = ZeroStats
  /\ runs[r].batchUpdates = <<>>

\* what an invocation on Monday..Friday does: it goes on to the sheets
PassedGate(r) ==
  \/ runs[r].pc = "getStockData"
  \/ CallsOf(r, "readSource") # {}
  \/ "sheets" \in runs[r].failed

\* C8: an invocation passes the gate exactly on the days 1..5 (Monday..Friday);
\* one on day 0 or 6 returns at once, without a read, a write or a notification,
\* and leaves the target sheet as it found it; rows are in the target sheet only
\* if an invocation on Monday..Friday wrote
C8_WeekendLeavesTargetAlone ==
  /\ \A r \in Runs : Started(r) =>
       /\ Weekend(r) => (GatedOut(r) /\ ~PassedGate(r))
       /\ (Weekend(r) /\ Latest(r)) => target = runs[r].targetAtStart
       /\ runs[r].day \in 1..5 => PassedGate(r)
  /\ Len(target) > 1 =>
       \E r \in Runs : runs[r].day \in 1..5 /\ CallsOf(r, "setFormulas") # {}

\* a Friday run wrote rows and a Saturday run after it was gated out
C8_Witness ==
  \E r, q \in Runs :
    /\ runs[r].day = 5 /\ runs[r].pc = "returned" /\ runs[r].stats.updated >= 1
    /\ runs[q].day = 6 /\ runs[q].pc = "returned" /\ runs[q].targetAtStart = target
    /\ Len(target) > 1

----------------------------------------------------------------------------
(* C10 *)

HasError(r, message) ==
  \E i \in DOMAIN runs[r].logged :
    /\ runs[r].logged[i].type = "ERROR"
    /\ runs[r].logged[i].message = message

FatalPath(r) ==
  \/ runs[r].pc = "thrown"
  \/ "sheets" \in runs[r].failed
  \/ CallsOf(r, "sendEmail") # {}
  \/ \E i \in DOMAIN runs[r].logged :
       runs[r].logged[i].message \in
         {"A serious error occurred: Exception: range",
          "A serious error occurred: Error: Could not find required sheets.",
          "A serious error occurred: Exception: Service error: Spreadsheets"}

\* C10: a failed read of the stock list is logged and read as an empty list:
\* the run never takes the fatal path and returns with total = 0, no write and
\* the target sheet as it was; a failed read of the existing rows is logged and
\* read as an empty key set: the run never takes the fatal path, enqueues every
\* supported record, counts no duplicate and, when its write succeeds, has
\* written them all
C10_ReadFailuresDegradeToEmpty ==
  \A r \in Runs :
    /\ "readSource" \in runs[r].failed =>
         /\ runs[r].stockData = <<>>
         /\ HasError(r, "Could not read stock list: Exception: range")
         /\ ~FatalPath(r)
         /\ runs[r].pc \in {"getExistingEntries", "returned"}
         /\ runs[r].pc = "returned" =>
              /\ runs[r].stats = ZeroStats
              /\ Len(Writes(r)) = 0
              /\ Latest(r) => target = runs[r].targetAtStart
    /\ "readTarget" \in runs[r].failed =>
         /\ runs[r].existingSet = {}
         /\ HasError(r, "Could not read existing entries: Exception: range")
         /\ ~FatalPath(r)
         /\ Planned(r) =>
              /\ Len(runs[r].batchUpdates) = Cardinality(Supported(runs[r].stockData))
              /\ \A i \in Supported(runs[r].stockData) :
                   EntriesOf(runs[r].batchUpdates, runs[r].stockData[i]) # {}
              /\ runs[r].stats.duplicates = 0
         /\ (runs[r].pc = "returned" /\ ~WriteFailed(r)) =>
              /\ runs[r].stats.updated = Cardinality(Supported(runs[r].stockData))
              /\ runs[r].stats.errors = 0
              /\ Supported(runs[r].stockData) # {} =>
                   Len(Writes(r)) = 2

\* one run wrote its records after a failed read of the existing rows, and a
\* later run returned with the sheet as it was after a failed stock list read
C10_Witness ==
  \E r, q \in Runs :
    /\ "readTarget" \in runs[r].failed /\ runs[r].pc = "returned"
    /\ runs[r].stats.updated >= 1
    /\ "readSource" \in runs[q].failed /\ runs[q].pc = "returned"
    /\ GetLastRow(source) > 1
    /\ Len(target) > 1 /\ target = runs[q].targetAtStart

----------------------------------------------------------------------------
(* Overlapping invocations *)

\* neither invocation began after the other had ended
Overlapped(r, q) ==
  /\ r # q /\ Started(r) /\ Started(q)
  /\ r \notin runs[q].after /\ q \notin runs[r].after

\* no record of the source sheet is listed twice
NoRepeatedRecord ==
  \A i, j \in 2..Len(source) :
    i < j => \/ Cell(source, i, sourceColumns.ticker) # Cell(source, j, sourceColumns.ticker)
             \/ Cell(source, i, sourceColumns.exchange) # Cell(source, j, sourceColumns.exchange)

\* invocation r found no row of this exchange, ticker and timestamp in its
\* snapshot and put the record on its batch with that timestamp
PassedDuplicateCheck(r, triple) ==
  /\ Planned(r) /\ runs[r].currentDateTime = triple[3]
  /\ entryKey([exchange |-> triple[1], ticker |-> triple[2]], triple[3])
       \notin runs[r].existingSet
  /\ \E k \in DOMAIN runs[r].batchUpdates :
       /\ runs[r].batchUpdates[k].exchange = triple[1]
       /\ runs[r].batchUpdates[k].ticker = triple[2]

\* rows i and j of the target sheet carry the same exchange, ticker and timestamp
DoubleWrite(i, j) ==
  i < j /\ Written(target, i) /\ TripleAt(target, i) = TripleAt(target, j)

\* C11: with the columns as shipped, a source list that names no record twice
\* and every read of the existing rows succeeding, two rows of the target sheet
\* hold the same exchange, ticker and timestamp only when two invocations
\* overlapped and both passed the duplicate check for that record with the same
\* run timestamp; invocations run one after the other never leave such rows.
C11_DoubleWriteOnlyWhenOverlapping ==
  ( /\ config.targetColumns = DefaultTargetColumns
    /\ NoRepeatedRecord
    /\ \A r \in Runs : "readTarget" \notin runs[r].failed )
  => \A i, j \in 2..Len(target) :
       DoubleWrite(i, j) =>
         \E r, q \in Runs :
           /\ Overlapped(r, q)
           /\ PassedDuplicateCheck(r, TripleAt(target, i))
           /\ PassedDuplicateCheck(q, TripleAt(target, i))

\* two overlapping invocations took their snapshots of the empty target sheet
\* before either wrote, both wrote without a failure with the same run
\* timestamp, and the sheet holds the same record twice
C11_Witness ==
  /\ config.targetColumns = DefaultTargetColumns /\ NoRepeatedRecord
  /\ \E r, q \in Runs :
       /\ Overlapped(r, q)
       /\ runs[r].pc = "returned" /\ runs[q].pc = "returned"
       /\ runs[r].failed = {} /\ runs[q].failed = {}
       /\ runs[r].existingSet = {} /\ runs[q].existingSet = {}
       /\ runs[r].currentDateTime = runs[q].currentDateTime
       /\ runs[r].stats.updated >= 1 /\ runs[q].stats.updated >= 1
       /\ \E i, j \in 2..Len(target) :
            /\ DoubleWrite(i, j)
            /\ PassedDuplicateCheck(r, TripleAt(target, i))
            /\ PassedDuplicateCheck(q, TripleAt(target, i))

\* the same two invocations one after the other: the second finds the rows of
\* the first in its snapshot, counts them as duplicates and writes nothing
C11_OneAfterTheOther ==
  /\ config.targetColumns = DefaultTargetColumns /\ NoRepeatedRecord
  /\ \E r, q \in Runs :
       /\ r \in runs[q].after
       /\ runs[r].pc = "returned" /\ runs[q].pc = "returned"
       /\ runs[r].failed = {} /\ runs[q].failed = {}
       /\ runs[r].currentDateTime = runs[q].currentDateTime
       /\ runs[r].stats.updated >= 1
       /\ runs[q].stats.duplicates >= 1 /\ runs[q].stats.updated = 0
       /\ \A i, j \in 2..Len(target) : ~DoubleWrite(i, j)

====
